---- MODULE Spec2Model ----
(***************************************************************************)
(* A model of the orochi-drng node: the keypair package (generation,       *)
(* restore, persist, load, sign), the startup code of cmd/drng/main.go and *)
(* the network package (New, Announce, Join), and the configuration store  *)
(* of cmd/orochimaru/config.go.  Four specifications share the variables:  *)
(* Spec (one node process), SpecKey (a caller of package keypair), SpecCfg *)
(* (goroutines calling the configuration store) and SpecNet (two node      *)
(* processes on one directory and one topic, with fairness).               *)
(*                                                                         *)
(* Key material is scaled down: one "word" stands for 32 bytes of key      *)
(* material and has two values, so an Ed25519 private key (64 bytes, seed  *)
(* || public) is two words, an Ed25519 public key (32 bytes) one word, a   *)
(* Secp256k1 private key (32 bytes) one word, and a base64 text has one    *)
(* character per word.  The libp2p primitives the package calls are        *)
(* modelled by their documented contract on these scaled values.           *)
(***************************************************************************)
EXTENDS Integers, Sequences, FiniteSets, TLC

(***************************************************************************)
(* Bounds of the model.                                                    *)
(***************************************************************************)
\* Longest raw byte string (in words) handed to the restore functions.
MaxRawLen == 2
\* Longest base64 text (in characters) found in an arbitrary key file.
MaxKeyChars == 2

(***************************************************************************)
(* libp2p key type codes (p2pCrypto.Ed25519, p2pCrypto.Secp256k1).         *)
(***************************************************************************)
Ed25519 == 1
Secp256k1 == 2
\* The codes a caller or a key file may carry: 0 (RSA, and the zero value of
\* an int field) and 3 (ECDSA) besides the two the package handles.
KeyTypes == {0, Ed25519, Secp256k1, 3}

Word == {0, 1}
\* The outcomes of the random source used by key generation.
Seeds == Word

\* The nil interface value of p2pCrypto.PrivKey / p2pCrypto.PubKey.
NilKey == [alg |-> -1, raw |-> <<>>]
\* The nil *KeyPair.
NoKP == [keyType |-> -1, privKey |-> NilKey, pubKey |-> NilKey]

(***************************************************************************)
(* libp2p crypto primitives, by contract.                                  *)
(***************************************************************************)
\* The Ed25519 public point of a seed (a fixed injective map on words).
EdPoint(s) == 1 - s
\* The compressed Secp256k1 public point of a scalar: <<parity, x>>.
SecpPoint(s) == <<s, 1 - s>>

\* p2pCrypto.GenerateKeyPairWithReader(typ, 256, rand.Reader) with the random
\* source yielding seed s: <<private key, public key>>.
GenerateKeyPair(typ, s) ==
    IF typ = Ed25519
    THEN <<[alg |-> Ed25519, raw |-> <<s, EdPoint(s)>>],
           [alg |-> Ed25519, raw |-> <<EdPoint(s)>>]>>
    ELSE <<[alg |-> Secp256k1, raw |-> <<s>>],
           [alg |-> Secp256k1, raw |-> SecpPoint(s)]>>

\* PrivKey.GetPublic()
GetPublic(p) ==
    IF p.alg = Ed25519
    THEN [alg |-> Ed25519, raw |-> <<p.raw[2]>>]
    ELSE [alg |-> Secp256k1, raw |-> SecpPoint(p.raw[1])]

\* p2pCrypto.UnmarshalEd25519PrivateKey: 64 bytes, or 96 bytes whose last 32
\* repeat the public key.
UnmarshalEd25519PrivateKey(b) ==
    IF Len(b) = 2
    THEN [err |-> "nil", key |-> [alg |-> Ed25519, raw |-> b]]
    ELSE IF Len(b) = 3 /\ b[2] = b[3]
    THEN [err |-> "nil", key |-> [alg |-> Ed25519, raw |-> <<b[1], b[2]>>]]
    ELSE [err |-> "KeyParseError", key |-> NilKey]

\* p2pCrypto.UnmarshalSecp256k1PrivateKey: exactly 32 bytes.
UnmarshalSecp256k1PrivateKey(b) ==
    IF Len(b) = 1
    THEN [err |-> "nil", key |-> [alg |-> Secp256k1, raw |-> b]]
    ELSE [err |-> "KeyParseError", key |-> NilKey]

\* p2pCrypto.UnmarshalEd25519PublicKey: exactly 32 bytes.
UnmarshalEd25519PublicKey(b) ==
    IF Len(b) = 1
    THEN [err |-> "nil", key |-> [alg |-> Ed25519, raw |-> b]]
    ELSE [err |-> "KeyParseError", key |-> NilKey]

\* The base64 alphabet, scaled: a word is one character.
B64Chars == <<"A", "B">>
B64Index(c) == IF c = "A" THEN 0 ELSE 1

RECURSIVE ConfigEncodeKey(_)
\* p2pCrypto.ConfigEncodeKey: base64 text of a byte string.
ConfigEncodeKey(b) ==
    IF b = <<>> THEN <<>>
    ELSE <<B64Chars[Head(b) + 1]>> \o ConfigEncodeKey(Tail(b))

RECURSIVE B64Words(_)
B64Words(t) ==
    IF t = <<>> THEN <<>>
    ELSE <<B64Index(Head(t))>> \o B64Words(Tail(t))

\* p2pCrypto.ConfigDecodeKey: the bytes of a base64 text, or an error on a
\* character outside the alphabet.
ConfigDecodeKey(t) ==
    IF \A i \in 1..Len(t) : t[i] \in {"A", "B"}
    THEN [err |-> "nil", bytes |-> B64Words(t)]
    ELSE [err |-> "KeyParseError", bytes |-> <<>>]

\* peer.IDFromPublicKey: the identifier derived from a public key.
IDFromPublicKey(v) == <<v.alg>> \o v.raw

(***************************************************************************)
(* package keypair.  A call's outcome is [kind, kp, err]: kind is "ok"     *)
(* (kp returned, err nil), "err" (nil KeyPair and an error value) or       *)
(* "panic" (a nil dereference aborts the process).                         *)
(***************************************************************************)
Ok(k) == [kind |-> "ok", kp |-> k, err |-> "nil"]
Err(e) == [kind |-> "err", kp |-> NoKP, err |-> e]
Panic == [kind |-> "panic", kp |-> NoKP, err |-> "nil pointer dereference"]

\* keypair.New(typ, bits): genOk is whether GenerateKeyPairWithReader succeeds.
New(typ, s, genOk) ==
    IF genOk
    THEN Ok([keyType |-> typ,
             privKey |-> GenerateKeyPair(typ, s)[1],
             pubKey |-> GenerateKeyPair(typ, s)[2]])
    ELSE Err("KeyGenerationError")

\* FromPrivateKey as it would be without the pubKey field of its literal
FromPrivateKeyNoPublic(typ, b) ==
    LET r == IF typ = Ed25519 THEN UnmarshalEd25519PrivateKey(b)
             ELSE IF typ = Secp256k1 THEN UnmarshalSecp256k1PrivateKey(b)
             ELSE [err |-> "nil", key |-> NilKey]
    IN  IF r.err = "nil"
        THEN IF r.key = NilKey
             THEN Panic
             ELSE Ok([keyType |-> 0, privKey |-> r.key, pubKey |-> NilKey])
        ELSE Err(r.err)

\* keypair.FromPrivateKey(typ, b)
FromPrivateKey(typ, b) ==
    LET r == IF typ = Ed25519 THEN UnmarshalEd25519PrivateKey(b)
             ELSE IF typ = Secp256k1 THEN UnmarshalSecp256k1PrivateKey(b)
             ELSE [err |-> "nil", key |-> NilKey]
    IN  IF r.err = "nil"
        THEN IF r.key = NilKey
             THEN Panic
             ELSE Ok([keyType |-> 0, privKey |-> r.key, pubKey |-> GetPublic(r.key)])
        ELSE Err(r.err)

\* keypair.FromBase64PrivateKey(typ, b)
FromBase64PrivateKey(typ, t) ==
    LET d == ConfigDecodeKey(t)
    IN  IF d.err = "nil" THEN FromPrivateKey(typ, d.bytes) ELSE Err(d.err)

\* keypair.FromPublicKey(b)
FromPublicKey(b) ==
    LET r == UnmarshalEd25519PublicKey(b)
    IN  IF r.err = "nil"
        THEN Ok([keyType |-> 0, privKey |-> NilKey, pubKey |-> r.key])
        ELSE Err(r.err)

\* keypair.FromBase64PublicKey(b)
FromBase64PublicKey(t) ==
    LET d == ConfigDecodeKey(t)
    IN  IF d.err = "nil" THEN FromPublicKey(d.bytes) ELSE Err(d.err)

\* (k *KeyPair) isAbleToSign()
isAbleToSign(k) == k.privKey # NilKey

\* (k *KeyPair) GetPrivateKey()
GetPrivateKey(k) == k.privKey

\* (k *KeyPair) GetPublicKey()
GetPublicKey(k) == k.pubKey

\* (k *KeyPair) GetID()
GetID(k) == IDFromPublicKey(GetPublicKey(k))

(***************************************************************************)
(* The key file.  A file is absent, holds text that is no JSON object      *)
(* (valid = FALSE: empty after a failed write, truncated, ...) or holds    *)
(* the JSON object {"type":..,"signKey":..,"key":..}.                      *)
(***************************************************************************)
NoFile == [exists |-> FALSE, valid |-> FALSE, type |-> 0, signKey |-> FALSE, key |-> <<>>]
EmptyFile == [exists |-> TRUE, valid |-> FALSE, type |-> 0, signKey |-> FALSE, key |-> <<>>]

\* The struct JSON of keypair.go as produced by new(JSON) and the two
\* assignments of SaveToFile: KeyType is never assigned and stays 0.
SaveJSON(k) ==
    IF isAbleToSign(k)
    THEN [KeyType |-> 0, SignKey |-> TRUE, Key |-> ConfigEncodeKey(k.privKey.raw)]
    ELSE [KeyType |-> 0, SignKey |-> FALSE, Key |-> ConfigEncodeKey(k.pubKey.raw)]

\* json.Marshal(*jsonKey) followed by fid.Write: the file's new content.
writeToJSON(j) ==
    [exists |-> TRUE, valid |-> TRUE, type |-> j.KeyType, signKey |-> j.SignKey, key |-> j.Key]

\* (k *KeyPair) SaveToFile(fileName): [file, ret, err].  createOk is the outcome
\* of os.Create (which truncates), writeOk that of fid.Write.
SaveToFile(k, file, createOk, writeOk) ==
    IF ~createOk THEN [file |-> file, ret |-> FALSE, err |-> "IOError"]
    ELSE IF ~writeOk THEN [file |-> EmptyFile, ret |-> FALSE, err |-> "IOError"]
    ELSE [file |-> writeToJSON(SaveJSON(k)), ret |-> TRUE, err |-> "nil"]

\* keypair.LoadFromFile(fileName): readOk is the outcome of ioutil.ReadFile on
\* an existing file.
LoadFromFile(file, readOk) ==
    IF ~file.exists \/ ~readOk THEN Err("IOError")
    ELSE IF ~file.valid THEN Err("DecodingError")
    ELSE IF file.signKey THEN FromBase64PrivateKey(file.type, file.key)
    ELSE FromBase64PublicKey(file.key)

\* (k *KeyPair) Sign(data): k.privKey.Sign(data) on whatever privKey holds.
Sign(k, data) ==
    IF k.privKey = NilKey
    THEN [kind |-> "panic", sig |-> <<>>, err |-> "nil pointer dereference"]
    ELSE [kind |-> "ok", sig |-> <<k.privKey.raw, data>>, err |-> "nil"]

(***************************************************************************)
(* The node process: main of cmd/drng/main.go, then network.New, Announce  *)
(* and Join.                                                               *)
(*   fs         the key file at AppConfig.GetKeyFile()                     *)
(*   pc         the place of the main goroutine ("aborted": the process    *)
(*              has ended by a panic, crash names the call that raised it) *)
(*   runs       startups so far against the same key file                  *)
(*   nodeKey    main's nodeKey                                             *)
(*   hostID     net.host.ID()                                              *)
(*   idFail     the identity-layer call that failed during this startup    *)
(*   dirFailed  the directory call (dht.New, Bootstrap, FindPeers) that    *)
(*              failed during this startup                                 *)
(*   persistedID  the identifier of the KeyPair a startup generated and    *)
(*              wrote to the key file                                      *)
(*   seedState, wg   the goroutines of Announce and its WaitGroup          *)
(*   yielded, attempts   what peerChan delivered, and the host.Connect     *)
(*              calls of the range loop                                    *)
(*   scheduled, pending  time.AfterFunc calls made, and those whose timer  *)
(*              has not fired yet                                          *)
(*   received, inbox     messages helloWorld.Next returned, and those the  *)
(*              subscription holds                                         *)
(*   pubFailed, recvFailed   topic.Publish / helloWorld.Next returned an   *)
(*              error during this startup                                  *)
(***************************************************************************)
VARIABLES fs, pc, crash, runs, nodeKey, hostID, idFail, dirFailed, persistedID,
          seedState, wg, yielded, attempts,
          scheduled, pending, received, inbox, pubFailed, recvFailed

idVars == <<fs, pc, crash, runs, nodeKey, hostID, idFail, dirFailed, persistedID>>
announceVars == <<seedState, wg, yielded, attempts>>
joinVars == <<scheduled, pending, received, inbox, pubFailed, recvFailed>>
mainVars == <<idVars, announceVars, joinVars>>

(***************************************************************************)
(* A caller of package keypair: it holds at most one *KeyPair (kp), and    *)
(* one key file (disk), and calls the package's functions in any order.    *)
(*   kpFrom   the function that returned kp                                *)
(*   last     the last call: [op, kind, err]                               *)
(*   lastTyp  the typ argument of the last call                            *)
(*   savedKP  the KeyPair whose record disk holds (NoKP when disk was not  *)
(*            written by a successful SaveToFile), savedFrom its origin    *)
(***************************************************************************)
VARIABLES kp, kpFrom, disk, last, lastTyp, savedKP, savedFrom

keyVars == <<kp, kpFrom, disk, last, lastTyp, savedKP, savedFrom>>

(***************************************************************************)
(* Goroutines calling Set and the Get* methods of one config.Config.       *)
(*   cfgStorage  the map of the Config                                     *)
(*   mutex       the goroutine holding c.mutex, 0 when it is free          *)
(*   cpc, carg   each goroutine's position and the arguments of its call   *)
(*   cret        the value its last get returned                           *)
(*   raced       its running map read has overlapped a map write           *)
(*   cfgCrash    the runtime has ended the process with "concurrent map    *)
(*               read and map write"                                       *)
(***************************************************************************)
VARIABLES cfgStorage, mutex, cpc, carg, cret, raced, cfgCrash

cfgVars == <<cfgStorage, mutex, cpc, carg, cret, raced, cfgCrash>>

(***************************************************************************)
(* Two nodes on one rendezvous label, one directory and one gossip topic.  *)
(*   npc         each node's position in main                              *)
(*   nkey, nhost each node's nodeKey and the identifier of its host        *)
(*   advertised  the nodes the directory lists under the label             *)
(*   found       what each node's peerChan has still to deliver            *)
(*   connected   the two hosts hold a connection                           *)
(*   timers      each node's armed timers that have not fired              *)
(*   ninbox      the messages each node's subscription holds               *)
(*   heard       the messages each node's helloWorld.Next has returned     *)
(***************************************************************************)
VARIABLES npc, nkey, nhost, advertised, found, connected, timers, ninbox, heard

netVars == <<npc, nkey, nhost, advertised, found, connected, timers, ninbox, heard>>

RECURSIVE SeqsUpTo(_, _)
\* The sequences over S of length at most n.
SeqsUpTo(S, n) ==
    IF n = 0 THEN {<<>>}
    ELSE LET shorter == SeqsUpTo(S, n - 1)
         IN  shorter \cup {Append(q, x) : q \in {r \in shorter : Len(r) = n - 1}, x \in S}

RawInputs == SeqsUpTo(Word, MaxRawLen)
TextInputs == SeqsUpTo({"A", "B", "!"}, MaxKeyChars)
SignData == {"m1", "m2"}

DiskInputs ==
    {NoFile, EmptyFile} \cup
    {[exists |-> TRUE, valid |-> TRUE, type |-> t, signKey |-> b, key |-> k] :
        t \in KeyTypes, b \in BOOLEAN, k \in TextInputs}

\* lastTyp: the typ argument of the last call, NoTyp when the call takes none
NoTyp == [given |-> FALSE, typ |-> 0]
GivenTyp(typ) == [given |-> TRUE, typ |-> typ]

KeyIdle ==
    /\ kp = NoKP
    /\ kpFrom = "none"
    /\ disk = NoFile
    /\ last = [op |-> "none", kind |-> "ok", err |-> "nil"]
    /\ lastTyp = NoTyp
    /\ savedKP = NoKP
    /\ savedFrom = "none"

KeyInit ==
    /\ kp = NoKP
    /\ kpFrom = "none"
    /\ disk \in DiskInputs
    /\ last = [op |-> "none", kind |-> "ok", err |-> "nil"]
    /\ lastTyp = NoTyp
    /\ savedKP = NoKP
    /\ savedFrom = "none"

Alive == last.kind # "panic"

\* A call that returns (*KeyPair, error): the caller keeps the returned pointer.
Returned(op, r) ==
    /\ kp' = r.kp
    /\ kpFrom' = IF r.kind # "ok" THEN "none"
                 ELSE IF op = "LoadFromFile" /\ ~disk.signKey THEN "LoadFromFile/public"
                 ELSE op
    /\ last' = [op |-> op, kind |-> r.kind, err |-> r.err]

CallNew ==
    /\ Alive
    /\ \E typ \in {Ed25519, Secp256k1}, s \in Seeds, genOk \in BOOLEAN :
          /\ Returned("New", New(typ, s, genOk))
          /\ lastTyp' = GivenTyp(typ)
    /\ UNCHANGED <<disk, savedKP, savedFrom>>
    /\ UNCHANGED <<mainVars, cfgVars, netVars>>

CallFromPrivateKey ==
    /\ Alive
    /\ \E typ \in KeyTypes, b \in RawInputs :
          /\ Returned("FromPrivateKey", FromPrivateKey(typ, b))
          /\ lastTyp' = GivenTyp(typ)
    /\ UNCHANGED <<disk, savedKP, savedFrom>>
    /\ UNCHANGED <<mainVars, cfgVars, netVars>>

CallFromBase64PrivateKey ==
    /\ Alive
    /\ \E typ \in KeyTypes, t \in TextInputs :
          /\ Returned("FromBase64PrivateKey", FromBase64PrivateKey(typ, t))
          /\ lastTyp' = GivenTyp(typ)
    /\ UNCHANGED <<disk, savedKP, savedFrom>>
    /\ UNCHANGED <<mainVars, cfgVars, netVars>>

CallFromPublicKey ==
    /\ Alive
    /\ \E b \in RawInputs : Returned("FromPublicKey", FromPublicKey(b))
    /\ lastTyp' = NoTyp
    /\ UNCHANGED <<disk, savedKP, savedFrom>>
    /\ UNCHANGED <<mainVars, cfgVars, netVars>>

CallFromBase64PublicKey ==
    /\ Alive
    /\ \E t \in TextInputs : Returned("FromBase64PublicKey", FromBase64PublicKey(t))
    /\ lastTyp' = NoTyp
    /\ UNCHANGED <<disk, savedKP, savedFrom>>
    /\ UNCHANGED <<mainVars, cfgVars, netVars>>

CallSaveToFile ==
    /\ Alive
    /\ kp # NoKP
    /\ \E createOk \in BOOLEAN, writeOk \in BOOLEAN :
          LET r == SaveToFile(kp, disk, createOk, writeOk)
          IN  /\ disk' = r.file
              /\ last' = [op |-> "SaveToFile", kind |-> IF r.err = "nil" THEN "ok" ELSE "err",
                          err |-> r.err]
              /\ savedKP' = IF r.ret THEN kp ELSE IF createOk THEN NoKP ELSE savedKP
              /\ savedFrom' = IF r.ret THEN kpFrom ELSE IF createOk THEN "none" ELSE savedFrom
    /\ lastTyp' = NoTyp
    /\ UNCHANGED <<kp, kpFrom>>
    /\ UNCHANGED <<mainVars, cfgVars, netVars>>

CallLoadFromFile ==
    /\ Alive
    /\ \E readOk \in BOOLEAN : Returned("LoadFromFile", LoadFromFile(disk, readOk))
    /\ lastTyp' = NoTyp
    /\ UNCHANGED <<disk, savedKP, savedFrom>>
    /\ UNCHANGED <<mainVars, cfgVars, netVars>>

CallSign ==
    /\ Alive
    /\ kp # NoKP
    /\ \E data \in SignData :
          LET r == Sign(kp, data)
          IN  last' = [op |-> "Sign", kind |-> r.kind, err |-> r.err]
    /\ lastTyp' = NoTyp
    /\ UNCHANGED <<kp, kpFrom, disk, savedKP, savedFrom>>
    /\ UNCHANGED <<mainVars, cfgVars, netVars>>

KeyNext ==
    \/ CallNew
    \/ CallFromPrivateKey
    \/ CallFromBase64PrivateKey
    \/ CallFromPublicKey
    \/ CallFromBase64PublicKey
    \/ CallSaveToFile
    \/ CallLoadFromFile
    \/ CallSign

(***************************************************************************)
(* The actions of the node process.                                        *)
(***************************************************************************)
\* Bounds of the process model.
\* Length of dht.DefaultBootstrapPeers.
NumBootstrap == 2
\* Peers delivered by peerChan before it is closed.
MaxPeers == 2
\* Messages helloWorld.Next returns before the model stops receiving.
MaxRecv == 2
\* Messages the subscription buffers; a further one is dropped.
MaxInbox == 2
\* Startups against the same key file.
MaxRuns == 2

NoID == <<>>
\* The identifiers peers of the network can have.
AllPeerIDs == {IDFromPublicKey(GenerateKeyPair(Ed25519, 0)[2]),
               IDFromPublicKey(GenerateKeyPair(Ed25519, 1)[2]),
               IDFromPublicKey(GenerateKeyPair(Secp256k1, 0)[2])}

\* peer.ID.Pretty(): the text form of an identifier.
Pretty(id) == [b58 |-> id]
\* The gossip message a node with host identifier sender and NodeID id
\* publishes: msg.GetFrom() and msg.GetData().
HelloMsg(sender, id) == [from |-> sender, data |-> <<"Hello from:", Pretty(id)>>]

\* Key files present before the first startup: none, an empty one, a record in
\* the documented format holding an Ed25519 private key, one holding a public key.
InitFiles ==
    {NoFile, EmptyFile,
     [exists |-> TRUE, valid |-> TRUE, type |-> Ed25519, signKey |-> TRUE,
      key |-> ConfigEncodeKey(GenerateKeyPair(Ed25519, 0)[1].raw)],
     [exists |-> TRUE, valid |-> TRUE, type |-> Ed25519, signKey |-> FALSE,
      key |-> ConfigEncodeKey(GenerateKeyPair(Ed25519, 1)[2].raw)]}

Started ==
    /\ pc = "Stat"
    /\ crash = "none"
    /\ nodeKey = NoKP
    /\ hostID = NoID
    /\ idFail = "none"
    /\ dirFailed = "none"
    /\ seedState = [i \in 1..NumBootstrap |-> "idle"]
    /\ wg = 0
    /\ yielded = <<>>
    /\ attempts = <<>>
    /\ scheduled = 0
    /\ pending = 0
    /\ received = 0
    /\ inbox = <<>>
    /\ pubFailed = FALSE
    /\ recvFailed = FALSE

MainInit ==
    /\ fs \in InitFiles
    /\ runs = 1
    /\ persistedID = NoID
    /\ Started

MainIdle ==
    /\ fs = NoFile
    /\ runs = 1
    /\ persistedID = NoID
    /\ Started

\* log.Panic(err): the process ends.
Abort(cause) ==
    /\ pc' = "aborted"
    /\ crash' = cause

\* main without the os.Stat test: a key is generated and saved at every start.
StatAlwaysNew ==
    /\ pc = "Stat"
    /\ pc' = "New"
    /\ UNCHANGED <<fs, crash, runs, nodeKey, hostID, idFail, persistedID>>
    /\ UNCHANGED <<announceVars, joinVars>>
    /\ UNCHANGED dirFailed
    /\ UNCHANGED <<keyVars, cfgVars, netVars>>

\* main.go:14  os.Stat(keyfile)
Stat ==
    /\ pc = "Stat"
    /\ pc' = IF fs.exists THEN "Load" ELSE "New"
    /\ UNCHANGED <<fs, crash, runs, nodeKey, hostID, idFail, persistedID>>
    /\ UNCHANGED <<announceVars, joinVars>>
    /\ UNCHANGED dirFailed
    /\ UNCHANGED <<keyVars, cfgVars, netVars>>

\* main.go:16-19  keypair.New(p2pCrypto.Ed25519, 256)
MainNew ==
    /\ pc = "New"
    /\ \E s \in Seeds, genOk \in BOOLEAN :
          LET r == New(Ed25519, s, genOk)
          IN  IF r.kind = "ok"
              THEN /\ nodeKey' = r.kp
                   /\ pc' = "Save"
                   /\ UNCHANGED <<crash, idFail>>
              ELSE /\ Abort("keypair.New")
                   /\ idFail' = "generate"
                   /\ UNCHANGED nodeKey
    /\ UNCHANGED <<fs, runs, hostID, persistedID>>
    /\ UNCHANGED <<announceVars, joinVars>>
    /\ UNCHANGED dirFailed
    /\ UNCHANGED <<keyVars, cfgVars, netVars>>

\* main.go:20-21  nodeKey.SaveToFile(keyfile); both results are dropped.
MainSave ==
    /\ pc = "Save"
    /\ \E createOk \in BOOLEAN, writeOk \in BOOLEAN :
          LET r == SaveToFile(nodeKey, fs, createOk, writeOk)
          IN  /\ fs' = r.file
              /\ idFail' = IF r.err = "nil" THEN idFail ELSE "persist"
              /\ persistedID' = IF r.ret THEN GetID(nodeKey) ELSE persistedID
    /\ pc' = "NetNew"
    /\ UNCHANGED <<crash, runs, nodeKey, hostID>>
    /\ UNCHANGED <<announceVars, joinVars>>
    /\ UNCHANGED dirFailed
    /\ UNCHANGED <<keyVars, cfgVars, netVars>>

\* main.go:24-28  keypair.LoadFromFile(keyfile)
MainLoad ==
    /\ pc = "Load"
    /\ \E readOk \in BOOLEAN :
          LET r == LoadFromFile(fs, readOk)
          IN  IF r.kind = "ok"
              THEN /\ nodeKey' = r.kp
                   /\ pc' = "NetNew"
                   /\ UNCHANGED <<crash, idFail>>
              ELSE /\ Abort(r.err)
                   /\ idFail' = "load"
                   /\ UNCHANGED nodeKey
    /\ UNCHANGED <<fs, runs, hostID, persistedID>>
    /\ UNCHANGED <<announceVars, joinVars>>
    /\ UNCHANGED dirFailed
    /\ UNCHANGED <<keyVars, cfgVars, netVars>>

\* network.New: a failure of NewMultiaddr, libp2p.New or NewGossipSub panics.
\* libp2p.Identity(nil) leaves the host to draw an identity of its own.
NetNew ==
    /\ pc = "NetNew"
    /\ \E ok \in BOOLEAN, rnd \in AllPeerIDs :
          IF ok
          THEN /\ hostID' = IF GetPrivateKey(nodeKey) # NilKey
                            THEN IDFromPublicKey(GetPublic(GetPrivateKey(nodeKey)))
                            ELSE rnd
               /\ pc' = "DhtNew"
               /\ UNCHANGED crash
          ELSE /\ Abort("network.New")
               /\ UNCHANGED hostID
    /\ UNCHANGED <<fs, runs, nodeKey, idFail, persistedID>>
    /\ UNCHANGED <<announceVars, joinVars>>
    /\ UNCHANGED dirFailed
    /\ UNCHANGED <<keyVars, cfgVars, netVars>>

\* network.go:91-94  dht.New
DhtNew ==
    /\ pc = "DhtNew"
    /\ \E ok \in BOOLEAN :
          IF ok
          THEN pc' = "Bootstrap" /\ UNCHANGED <<crash, dirFailed>>
          ELSE Abort("dht.New") /\ dirFailed' = "dht.New"
    /\ UNCHANGED <<fs, runs, nodeKey, hostID, idFail, persistedID>>
    /\ UNCHANGED <<announceVars, joinVars>>
    /\ UNCHANGED <<keyVars, cfgVars, netVars>>

\* kademliaDHT.Bootstrap with its error logged as a warning and the step skipped.
BootstrapWarned ==
    /\ pc = "Bootstrap"
    /\ \E ok \in BOOLEAN :
          /\ pc' = "SeedLoop"
          /\ dirFailed' = IF ok THEN dirFailed ELSE "dht.Bootstrap"
    /\ UNCHANGED <<fs, crash, runs, nodeKey, hostID, idFail, persistedID>>
    /\ UNCHANGED <<announceVars, joinVars>>
    /\ UNCHANGED <<keyVars, cfgVars, netVars>>

\* network.go:99-101  kademliaDHT.Bootstrap
Bootstrap ==
    /\ pc = "Bootstrap"
    /\ \E ok \in BOOLEAN :
          IF ok
          THEN pc' = "SeedLoop" /\ UNCHANGED <<crash, dirFailed>>
          ELSE Abort("dht.Bootstrap") /\ dirFailed' = "dht.Bootstrap"
    /\ UNCHANGED <<fs, runs, nodeKey, hostID, idFail, persistedID>>
    /\ UNCHANGED <<announceVars, joinVars>>
    /\ UNCHANGED <<keyVars, cfgVars, netVars>>

\* network.go:106-117  one iteration of the loop over DefaultBootstrapPeers:
\* wg.Add(1) and the go statement.
SeedSpawn ==
    /\ pc = "SeedLoop"
    /\ \E i \in 1..NumBootstrap :
          /\ seedState[i] = "idle"
          /\ \A j \in 1..(i - 1) : seedState[j] # "idle"
          /\ seedState' = [seedState EXCEPT ![i] = "connecting"]
    /\ wg' = wg + 1
    /\ UNCHANGED <<idVars, yielded, attempts, joinVars>>
    /\ UNCHANGED <<keyVars, cfgVars, netVars>>

\* network.go:106  the loop over DefaultBootstrapPeers ends.
SeedLoopExit ==
    /\ pc = "SeedLoop"
    /\ \A i \in 1..NumBootstrap : seedState[i] # "idle"
    /\ pc' = "WgWait"
    /\ UNCHANGED <<fs, crash, runs, nodeKey, hostID, idFail, persistedID>>
    /\ UNCHANGED <<announceVars, joinVars>>
    /\ UNCHANGED dirFailed
    /\ UNCHANGED <<keyVars, cfgVars, netVars>>

\* network.go:109-116  a seed goroutine: host.Connect, a log line, wg.Done.
SeedConnect ==
    /\ pc # "aborted"
    /\ \E i \in 1..NumBootstrap, ok \in BOOLEAN :
          /\ seedState[i] = "connecting"
          /\ seedState' = [seedState EXCEPT ![i] = IF ok THEN "connected" ELSE "failed"]
    /\ wg' = wg - 1
    /\ UNCHANGED <<idVars, yielded, attempts, joinVars>>
    /\ UNCHANGED <<keyVars, cfgVars, netVars>>

\* wg.Wait() followed by a check that some seed connection succeeded, which
\* the code does not make.
WgWaitNeedsSeed ==
    /\ pc = "WgWait"
    /\ wg = 0
    /\ IF \E i \in 1..NumBootstrap : seedState[i] = "connected"
       THEN pc' = "Advertise" /\ UNCHANGED crash
       ELSE Abort("no seed connection")
    /\ UNCHANGED <<fs, runs, nodeKey, hostID, idFail, persistedID>>
    /\ UNCHANGED <<announceVars, joinVars>>
    /\ UNCHANGED dirFailed
    /\ UNCHANGED <<keyVars, cfgVars, netVars>>

\* The orchestrator going on to advertise without wg.Wait().
WgWaitNoBarrier ==
    /\ pc = "WgWait"
    /\ pc' = "Advertise"
    /\ UNCHANGED <<fs, crash, runs, nodeKey, hostID, idFail, persistedID>>
    /\ UNCHANGED <<announceVars, joinVars>>
    /\ UNCHANGED dirFailed
    /\ UNCHANGED <<keyVars, cfgVars, netVars>>

\* network.go:118  wg.Wait()
WgWait ==
    /\ pc = "WgWait"
    /\ wg = 0
    /\ pc' = "Advertise"
    /\ UNCHANGED <<fs, crash, runs, nodeKey, hostID, idFail, persistedID>>
    /\ UNCHANGED <<announceVars, joinVars>>
    /\ UNCHANGED dirFailed
    /\ UNCHANGED <<keyVars, cfgVars, netVars>>

\* discovery.Advertise followed by the return of Announce, without the lookup.
AdvertiseThenJoin ==
    /\ pc = "Advertise"
    /\ pc' = "Join"
    /\ UNCHANGED <<fs, crash, runs, nodeKey, hostID, idFail, persistedID>>
    /\ UNCHANGED <<announceVars, joinVars>>
    /\ UNCHANGED dirFailed
    /\ UNCHANGED <<keyVars, cfgVars, netVars>>

\* network.go:122-125  discovery.Advertise
Advertise ==
    /\ pc = "Advertise"
    /\ pc' = "FindPeers"
    /\ UNCHANGED <<fs, crash, runs, nodeKey, hostID, idFail, persistedID>>
    /\ UNCHANGED <<announceVars, joinVars>>
    /\ UNCHANGED dirFailed
    /\ UNCHANGED <<keyVars, cfgVars, netVars>>

\* network.go:130-133  routingDiscovery.FindPeers
FindPeers ==
    /\ pc = "FindPeers"
    /\ \E ok \in BOOLEAN :
          IF ok
          THEN pc' = "Range" /\ UNCHANGED <<crash, dirFailed>>
          ELSE Abort("FindPeers") /\ dirFailed' = "FindPeers"
    /\ UNCHANGED <<fs, runs, nodeKey, hostID, idFail, persistedID>>
    /\ UNCHANGED <<announceVars, joinVars>>
    /\ UNCHANGED <<keyVars, cfgVars, netVars>>

\* The range loop without the comparison of curPeer.ID with net.host.ID().
RangeNextNoSelfCheck ==
    /\ pc = "Range"
    /\ Len(yielded) < MaxPeers
    /\ \E curPeer \in AllPeerIDs, ok \in BOOLEAN :
          /\ yielded' = Append(yielded, curPeer)
          /\ attempts' = Append(attempts, [id |-> curPeer, ok |-> ok])
    /\ UNCHANGED <<idVars, seedState, wg, joinVars>>
    /\ UNCHANGED <<keyVars, cfgVars, netVars>>

\* The range loop with a failed host.Connect handed to log.Panic.
RangeNextFatal ==
    /\ pc = "Range"
    /\ Len(yielded) < MaxPeers
    /\ \E curPeer \in AllPeerIDs, ok \in BOOLEAN :
          /\ yielded' = Append(yielded, curPeer)
          /\ attempts' = IF curPeer = hostID
                         THEN attempts
                         ELSE Append(attempts, [id |-> curPeer, ok |-> ok])
          /\ IF curPeer # hostID /\ ~ok
             THEN Abort("host.Connect")
             ELSE UNCHANGED <<pc, crash>>
    /\ UNCHANGED <<fs, runs, nodeKey, hostID, idFail, persistedID>>
    /\ UNCHANGED <<seedState, wg, joinVars>>
    /\ UNCHANGED dirFailed
    /\ UNCHANGED <<keyVars, cfgVars, netVars>>

\* network.go:135-149  one iteration of the range over peerChan: the channel
\* delivers curPeer; the node's own identifier is skipped, any other is handed
\* to host.Connect, whose failure is logged.
RangeNext ==
    /\ pc = "Range"
    /\ Len(yielded) < MaxPeers
    /\ \E curPeer \in AllPeerIDs, ok \in BOOLEAN :
          /\ yielded' = Append(yielded, curPeer)
          /\ attempts' = IF curPeer = hostID
                         THEN attempts
                         ELSE Append(attempts, [id |-> curPeer, ok |-> ok])
    /\ UNCHANGED <<idVars, seedState, wg, joinVars>>
    /\ UNCHANGED <<keyVars, cfgVars, netVars>>

\* network.go:135  peerChan is closed: the loop ends.
RangeClosed ==
    /\ pc = "Range"
    /\ pc' = "AnnounceDone"
    /\ UNCHANGED <<fs, crash, runs, nodeKey, hostID, idFail, persistedID>>
    /\ UNCHANGED <<announceVars, joinVars>>
    /\ UNCHANGED dirFailed
    /\ UNCHANGED <<keyVars, cfgVars, netVars>>

\* network.go:150  Announce returns; its locals are gone.
AnnounceReturn ==
    /\ pc = "AnnounceDone"
    /\ pc' = "Join"
    /\ seedState' = [i \in 1..NumBootstrap |-> "idle"]
    /\ wg' = 0
    /\ yielded' = <<>>
    /\ attempts' = <<>>
    /\ UNCHANGED <<fs, crash, runs, nodeKey, hostID, idFail, persistedID>>
    /\ UNCHANGED joinVars
    /\ UNCHANGED dirFailed
    /\ UNCHANGED <<keyVars, cfgVars, netVars>>

\* network.go:155-159  net.pubsub.Join("hello")
JoinTopic ==
    /\ pc = "Join"
    /\ \E ok \in BOOLEAN :
          IF ok THEN pc' = "Subscribe" /\ UNCHANGED crash ELSE Abort("pubsub.Join")
    /\ UNCHANGED <<fs, runs, nodeKey, hostID, idFail, persistedID>>
    /\ UNCHANGED <<announceVars, joinVars>>
    /\ UNCHANGED dirFailed
    /\ UNCHANGED <<keyVars, cfgVars, netVars>>

\* network.go:161-165  topic.Subscribe()
Subscribe ==
    /\ pc = "Subscribe"
    /\ \E ok \in BOOLEAN :
          IF ok THEN pc' = "Loop" /\ UNCHANGED crash ELSE Abort("topic.Subscribe")
    /\ UNCHANGED <<fs, runs, nodeKey, hostID, idFail, persistedID>>
    /\ UNCHANGED <<announceVars, joinVars>>
    /\ UNCHANGED dirFailed
    /\ UNCHANGED <<keyVars, cfgVars, netVars>>

\* network.go:168-170  time.AfterFunc: a timer is armed.
AfterFunc ==
    /\ pc = "Loop"
    /\ scheduled' = scheduled + 1
    /\ pending' = pending + 1
    /\ pc' = "Next"
    /\ UNCHANGED <<fs, crash, runs, nodeKey, hostID, idFail, persistedID>>
    /\ UNCHANGED <<announceVars, received, inbox, pubFailed, recvFailed>>
    /\ UNCHANGED dirFailed
    /\ UNCHANGED <<keyVars, cfgVars, netVars>>

\* network.go:171-175  helloWorld.Next returns a message, which is logged.
NextMsg ==
    /\ pc = "Next"
    /\ inbox # <<>>
    /\ received < MaxRecv
    /\ received' = received + 1
    /\ inbox' = Tail(inbox)
    /\ pc' = "Loop"
    /\ UNCHANGED <<fs, crash, runs, nodeKey, hostID, idFail, persistedID>>
    /\ UNCHANGED <<announceVars, scheduled, pending, pubFailed, recvFailed>>
    /\ UNCHANGED dirFailed
    /\ UNCHANGED <<keyVars, cfgVars, netVars>>

\* helloWorld.Next returns an error that is logged, and the loop goes on.
NextErrLogged ==
    /\ pc = "Next"
    /\ recvFailed' = TRUE
    /\ pc' = "Loop"
    /\ UNCHANGED <<fs, crash, runs, nodeKey, hostID, idFail, persistedID>>
    /\ UNCHANGED <<announceVars, scheduled, pending, received, inbox, pubFailed>>
    /\ UNCHANGED dirFailed
    /\ UNCHANGED <<keyVars, cfgVars, netVars>>

\* network.go:171-174  helloWorld.Next returns an error.
NextErr ==
    /\ pc = "Next"
    /\ recvFailed' = TRUE
    /\ Abort("helloWorld.Next")
    /\ UNCHANGED <<fs, runs, nodeKey, hostID, idFail, persistedID>>
    /\ UNCHANGED <<announceVars, scheduled, pending, received, inbox, pubFailed>>
    /\ UNCHANGED dirFailed
    /\ UNCHANGED <<keyVars, cfgVars, netVars>>

\* A periodic ticker in place of the one-shot timer: the callback publishes
\* and the next publish is scheduled by the timer itself.
TimerFireRearm ==
    /\ pc # "aborted"
    /\ pending > 0
    /\ scheduled < MaxRecv + 1
    /\ scheduled' = scheduled + 1
    /\ \E ok \in BOOLEAN :
          IF ok
          THEN /\ inbox' = IF Len(inbox) < MaxInbox
                           THEN Append(inbox, HelloMsg(hostID, GetID(nodeKey)))
                           ELSE inbox
               /\ UNCHANGED pubFailed
          ELSE /\ pubFailed' = TRUE
               /\ UNCHANGED inbox
    /\ UNCHANGED <<idVars, announceVars, pending, received, recvFailed>>
    /\ UNCHANGED <<keyVars, cfgVars, netVars>>

\* network.go:168-170  a timer fires: topic.Publish, whose result is dropped.
\* A published message reaches the node's own subscription unless its buffer
\* is full.
TimerFire ==
    /\ pc # "aborted"
    /\ pending > 0
    /\ pending' = pending - 1
    /\ \E ok \in BOOLEAN :
          IF ok
          THEN /\ inbox' = IF Len(inbox) < MaxInbox
                           THEN Append(inbox, HelloMsg(hostID, GetID(nodeKey)))
                           ELSE inbox
               /\ UNCHANGED pubFailed
          ELSE /\ pubFailed' = TRUE
               /\ UNCHANGED inbox
    /\ UNCHANGED <<idVars, announceVars, scheduled, received, recvFailed>>
    /\ UNCHANGED <<keyVars, cfgVars, netVars>>

\* A peer's message on the topic reaches the subscription.
PeerPublish ==
    /\ pc \in {"Loop", "Next"}
    /\ Len(inbox) < MaxInbox
    /\ \E p \in AllPeerIDs \ {hostID} : inbox' = Append(inbox, HelloMsg(p, p))
    /\ UNCHANGED <<idVars, announceVars, scheduled, pending, received, pubFailed, recvFailed>>
    /\ UNCHANGED <<keyVars, cfgVars, netVars>>

\* The process has ended or is ended, and the node is started again.
Restart ==
    /\ runs < MaxRuns
    /\ runs' = runs + 1
    /\ pc' = "Stat"
    /\ crash' = "none"
    /\ nodeKey' = NoKP
    /\ hostID' = NoID
    /\ idFail' = "none"
    /\ dirFailed' = "none"
    /\ seedState' = [i \in 1..NumBootstrap |-> "idle"]
    /\ wg' = 0
    /\ yielded' = <<>>
    /\ attempts' = <<>>
    /\ scheduled' = 0
    /\ pending' = 0
    /\ received' = 0
    /\ inbox' = <<>>
    /\ pubFailed' = FALSE
    /\ recvFailed' = FALSE
    /\ UNCHANGED <<fs, persistedID>>
    /\ UNCHANGED <<keyVars, cfgVars, netVars>>

MainNext ==
    \/ Stat
    \/ MainNew
    \/ MainSave
    \/ MainLoad
    \/ NetNew
    \/ DhtNew
    \/ Bootstrap
    \/ SeedSpawn
    \/ SeedLoopExit
    \/ SeedConnect
    \/ WgWait
    \/ Advertise
    \/ FindPeers
    \/ RangeNext
    \/ RangeClosed
    \/ AnnounceReturn
    \/ JoinTopic
    \/ Subscribe
    \/ AfterFunc
    \/ NextMsg
    \/ NextErr
    \/ TimerFire
    \/ PeerPublish
    \/ Restart

(***************************************************************************)
(* package config: concurrent callers of Set and get                       *)
(***************************************************************************)
\* the goroutines that call the store
NumGoroutines == 2
Goroutines == 1..NumGoroutines

\* flag names of config.go and values they are set to
CfgKeys == {"node::key_file", "node::domain"}
CfgValues == {"a", "b"}
NoValue == "nil"
NoArg == [key |-> "", value |-> NoValue]

\* (c *Config) init(): an empty map; no call is running.
CfgInit ==
    /\ cfgStorage = [k \in CfgKeys |-> NoValue]
    /\ mutex = 0
    /\ cpc = [g \in Goroutines |-> "idle"]
    /\ carg = [g \in Goroutines |-> NoArg]
    /\ cret = [g \in Goroutines |-> NoValue]
    /\ raced = [g \in Goroutines |-> FALSE]
    /\ cfgCrash = FALSE

CfgIdle == CfgInit

Storing == {g \in Goroutines : cpc[g] = "Set:Storing"}
Loading == {g \in Goroutines : cpc[g] = "get:Loading"}

\* a goroutine calls c.Set(key, value)
CallSet(g) ==
    /\ ~cfgCrash
    /\ cpc[g] = "idle"
    /\ \E k \in CfgKeys, v \in CfgValues : carg' = [carg EXCEPT ![g] = [key |-> k, value |-> v]]
    /\ cpc' = [cpc EXCEPT ![g] = "Set:Lock"]
    /\ UNCHANGED <<cfgStorage, mutex, cret, raced, cfgCrash>>
    /\ UNCHANGED <<keyVars, mainVars, netVars>>

\* config.go:274  c.mutex.Lock()
SetLock(g) ==
    /\ ~cfgCrash
    /\ cpc[g] = "Set:Lock"
    /\ mutex = 0
    /\ mutex' = g
    /\ cpc' = [cpc EXCEPT ![g] = "Set:Store"]
    /\ UNCHANGED <<cfgStorage, carg, cret, raced, cfgCrash>>
    /\ UNCHANGED <<keyVars, mainVars, netVars>>

\* config.go:276  c.cfgStorage[key] = value begins; a map read that is running
\* now overlaps it.
SetStoreBegin(g) ==
    /\ ~cfgCrash
    /\ cpc[g] = "Set:Store"
    /\ cpc' = [cpc EXCEPT ![g] = "Set:Storing"]
    /\ raced' = [r \in Goroutines |-> raced[r] \/ r \in Loading]
    /\ UNCHANGED <<cfgStorage, mutex, carg, cret, cfgCrash>>
    /\ UNCHANGED <<keyVars, mainVars, netVars>>

\* config.go:276  the map assignment is complete.
SetStoreEnd(g) ==
    /\ ~cfgCrash
    /\ cpc[g] = "Set:Storing"
    /\ cfgStorage' = [cfgStorage EXCEPT ![carg[g].key] = carg[g].value]
    /\ cpc' = [cpc EXCEPT ![g] = "Set:Unlock"]
    /\ UNCHANGED <<mutex, carg, cret, raced, cfgCrash>>
    /\ UNCHANGED <<keyVars, mainVars, netVars>>

\* config.go:275, 277  return true; the deferred c.mutex.Unlock() runs.
SetUnlock(g) ==
    /\ ~cfgCrash
    /\ cpc[g] = "Set:Unlock"
    /\ mutex' = 0
    /\ cpc' = [cpc EXCEPT ![g] = "idle"]
    /\ carg' = [carg EXCEPT ![g] = NoArg]
    /\ UNCHANGED <<cfgStorage, cret, raced, cfgCrash>>
    /\ UNCHANGED <<keyVars, mainVars, netVars>>

\* a goroutine calls GetBool, GetInt, GetUint or GetString, which call c.get(key)
CallGet(g) ==
    /\ ~cfgCrash
    /\ cpc[g] = "idle"
    /\ \E k \in CfgKeys : carg' = [carg EXCEPT ![g] = [key |-> k, value |-> NoValue]]
    /\ cpc' = [cpc EXCEPT ![g] = "get:Load"]
    /\ UNCHANGED <<cfgStorage, mutex, cret, raced, cfgCrash>>
    /\ UNCHANGED <<keyVars, mainVars, netVars>>

\* config.go:325  the read of c.cfgStorage[key] begins; c.mutex is not taken.
GetLoadBegin(g) ==
    /\ ~cfgCrash
    /\ cpc[g] = "get:Load"
    /\ cpc' = [cpc EXCEPT ![g] = "get:Loading"]
    /\ raced' = [raced EXCEPT ![g] = Storing # {}]
    /\ UNCHANGED <<cfgStorage, mutex, carg, cret, cfgCrash>>
    /\ UNCHANGED <<keyVars, mainVars, netVars>>

\* config.go:325-328  the read is complete and get returns.  A read that has
\* overlapped a write is a data race: it returns any value, or the runtime
\* ends the process.
GetLoadEnd(g) ==
    /\ ~cfgCrash
    /\ cpc[g] = "get:Loading"
    /\ IF raced[g]
       THEN \/ /\ \E v \in CfgValues \cup {NoValue} : cret' = [cret EXCEPT ![g] = v]
               /\ UNCHANGED cfgCrash
            \/ /\ cfgCrash' = TRUE
               /\ UNCHANGED cret
       ELSE /\ cret' = [cret EXCEPT ![g] = cfgStorage[carg[g].key]]
            /\ UNCHANGED cfgCrash
    /\ cpc' = [cpc EXCEPT ![g] = "idle"]
    /\ carg' = [carg EXCEPT ![g] = NoArg]
    /\ raced' = [raced EXCEPT ![g] = FALSE]
    /\ UNCHANGED <<cfgStorage, mutex>>
    /\ UNCHANGED <<keyVars, mainVars, netVars>>

CfgNext ==
    \E g \in Goroutines :
       \/ CallSet(g)
       \/ SetLock(g)
       \/ SetStoreBegin(g)
       \/ SetStoreEnd(g)
       \/ SetUnlock(g)
       \/ CallGet(g)
       \/ GetLoadBegin(g)
       \/ GetLoadEnd(g)


(***************************************************************************)
(* Two node processes that share the directory and the gossip topic, in    *)
(* runs where no call of main, network.New, Announce or Join fails.        *)
(***************************************************************************)
\* timers one node may have armed and not yet fired
MaxTimers == 2

Nodes == {"A", "B"}
\* what rand.Reader gives each node's keypair.New
NodeSeed == [n \in Nodes |-> IF n = "A" THEN 0 ELSE 1]
InLoop(n) == npc[n] \in {"Loop", "Next"}

NetInit ==
    /\ npc = [n \in Nodes |-> "Start"]
    /\ nkey = [n \in Nodes |-> NoKP]
    /\ nhost = [n \in Nodes |-> NoID]
    /\ advertised = {}
    /\ found = [n \in Nodes |-> {}]
    /\ connected = FALSE
    /\ timers = [n \in Nodes |-> 0]
    /\ ninbox = [n \in Nodes |-> <<>>]
    /\ heard = [n \in Nodes |-> {}]

NetIdle == NetInit

\* main.go:14-31 and network.go:91-118  a first start without a key file:
\* keypair.New, SaveToFile, network.New, dht.New, Bootstrap and the seed
\* connections up to wg.Wait.
NStartup(n) ==
    /\ npc[n] = "Start"
    /\ LET k == New(Ed25519, NodeSeed[n], TRUE).kp
       IN  /\ nkey' = [nkey EXCEPT ![n] = k]
           /\ nhost' = [nhost EXCEPT ![n] = IDFromPublicKey(GetPublic(GetPrivateKey(k)))]
    /\ npc' = [npc EXCEPT ![n] = "Advertise"]
    /\ UNCHANGED <<advertised, found, connected, timers, ninbox, heard>>
    /\ UNCHANGED <<keyVars, mainVars, cfgVars>>

\* network.go:122-125  discovery.Advertise: the directory lists the node.
NAdvertise(n) ==
    /\ npc[n] = "Advertise"
    /\ advertised' = advertised \cup {n}
    /\ npc' = [npc EXCEPT ![n] = "FindPeers"]
    /\ UNCHANGED <<nkey, nhost, found, connected, timers, ninbox, heard>>
    /\ UNCHANGED <<keyVars, mainVars, cfgVars>>

\* network.go:130-133  FindPeers: peerChan will deliver the nodes listed now.
NFindPeers(n) ==
    /\ npc[n] = "FindPeers"
    /\ found' = [found EXCEPT ![n] = advertised]
    /\ npc' = [npc EXCEPT ![n] = "Range"]
    /\ UNCHANGED <<nkey, nhost, advertised, connected, timers, ninbox, heard>>
    /\ UNCHANGED <<keyVars, mainVars, cfgVars>>

\* The range over peerChan with every delivered entry skipped.
NRangeNextNoConnect(n) ==
    /\ npc[n] = "Range"
    /\ \E p \in found[n] : found' = [found EXCEPT ![n] = found[n] \ {p}]
    /\ UNCHANGED <<npc, nkey, nhost, advertised, connected, timers, ninbox, heard>>
    /\ UNCHANGED <<keyVars, mainVars, cfgVars>>

\* network.go:135-149  one iteration of the range over peerChan: the node's
\* own entry is skipped, the other node's is handed to host.Connect.
NRangeNext(n) ==
    /\ npc[n] = "Range"
    /\ \E p \in found[n] :
          /\ found' = [found EXCEPT ![n] = found[n] \ {p}]
          /\ connected' = (connected \/ nhost[p] # nhost[n])
    /\ UNCHANGED <<npc, nkey, nhost, advertised, timers, ninbox, heard>>
    /\ UNCHANGED <<keyVars, mainVars, cfgVars>>

\* network.go:135, 150  peerChan is closed and Announce returns.
NRangeClosed(n) ==
    /\ npc[n] = "Range"
    /\ found[n] = {}
    /\ npc' = [npc EXCEPT ![n] = "Join"]
    /\ UNCHANGED <<nkey, nhost, advertised, found, connected, timers, ninbox, heard>>
    /\ UNCHANGED <<keyVars, mainVars, cfgVars>>

\* network.go:155-159  net.pubsub.Join("hello")
NJoinTopic(n) ==
    /\ npc[n] = "Join"
    /\ npc' = [npc EXCEPT ![n] = "Subscribe"]
    /\ UNCHANGED <<nkey, nhost, advertised, found, connected, timers, ninbox, heard>>
    /\ UNCHANGED <<keyVars, mainVars, cfgVars>>

\* network.go:161-165  topic.Subscribe()
NSubscribe(n) ==
    /\ npc[n] = "Subscribe"
    /\ npc' = [npc EXCEPT ![n] = "Loop"]
    /\ UNCHANGED <<nkey, nhost, advertised, found, connected, timers, ninbox, heard>>
    /\ UNCHANGED <<keyVars, mainVars, cfgVars>>

\* network.go:168-170  time.AfterFunc
NAfterFunc(n) ==
    /\ npc[n] = "Loop"
    /\ timers[n] < MaxTimers
    /\ timers' = [timers EXCEPT ![n] = timers[n] + 1]
    /\ npc' = [npc EXCEPT ![n] = "Next"]
    /\ UNCHANGED <<nkey, nhost, advertised, found, connected, ninbox, heard>>
    /\ UNCHANGED <<keyVars, mainVars, cfgVars>>

\* network.go:171-175  helloWorld.Next returns a message, which is logged.
NNextMsg(n) ==
    /\ npc[n] = "Next"
    /\ ninbox[n] # <<>>
    /\ heard' = [heard EXCEPT ![n] = heard[n] \cup {Head(ninbox[n])}]
    /\ ninbox' = [ninbox EXCEPT ![n] = Tail(ninbox[n])]
    /\ npc' = [npc EXCEPT ![n] = "Loop"]
    /\ UNCHANGED <<nkey, nhost, advertised, found, connected, timers>>
    /\ UNCHANGED <<keyVars, mainVars, cfgVars>>

\* The subscriptions a message published by n reaches: its own, and the
\* other node's when the hosts are connected and that node has subscribed;
\* a subscription whose buffer is full drops the message.
Reaches(n, q) ==
    /\ InLoop(q)
    /\ q = n \/ connected
    /\ Len(ninbox[q]) < MaxInbox

\* network.go:168-170  a timer fires: topic.Publish
NTimerFire(n) ==
    /\ timers[n] > 0
    /\ timers' = [timers EXCEPT ![n] = timers[n] - 1]
    /\ ninbox' = [q \in Nodes |->
                     IF Reaches(n, q)
                     THEN Append(ninbox[q], HelloMsg(nhost[n], GetID(nkey[n])))
                     ELSE ninbox[q]]
    /\ UNCHANGED <<npc, nkey, nhost, advertised, found, connected, heard>>
    /\ UNCHANGED <<keyVars, mainVars, cfgVars>>

\* a step of node n's main goroutine
NMain(n) ==
    \/ NStartup(n)
    \/ NAdvertise(n)
    \/ NFindPeers(n)
    \/ NRangeNext(n)
    \/ NRangeClosed(n)
    \/ NJoinTopic(n)
    \/ NSubscribe(n)
    \/ NAfterFunc(n)
    \/ NNextMsg(n)

NetNext == \E n \in Nodes : NMain(n) \/ NTimerFire(n)

vars == <<keyVars, mainVars, cfgVars, netVars>>

\* The node process.
Init == MainInit /\ KeyIdle /\ CfgIdle /\ NetIdle
Next == MainNext
Spec == Init /\ [][Next]_vars

\* A caller of package keypair.
InitKey == KeyInit /\ MainIdle /\ CfgIdle /\ NetIdle
NextKey == KeyNext
SpecKey == InitKey /\ [][NextKey]_vars

\* Concurrent callers of the configuration store.
InitCfg == CfgInit /\ MainIdle /\ KeyIdle /\ NetIdle
NextCfg == CfgNext
SpecCfg == InitCfg /\ [][NextCfg]_vars

\* Two nodes.  Each node's main goroutine keeps running while it has a step
\* to take, and an armed timer fires.
InitNet == NetInit /\ MainIdle /\ KeyIdle /\ CfgIdle
NextNet == NetNext
SpecNet ==
    /\ InitNet
    /\ [][NextNet]_vars
    /\ \A n \in Nodes : WF_vars(NMain(n)) /\ WF_vars(NTimerFire(n))

(***************************************************************************)
(* Properties.                                                             *)
(***************************************************************************)

\* C1: a KeyPair generated by New, written by SaveToFile and read back by
\* LoadFromFile (the read itself succeeding) comes back without error or
\* crash, with the same algorithm code, the same key bytes and the same GetID.
C1_RoundTrip ==
    (last.op = "LoadFromFile" /\ savedFrom = "New" /\ last.err # "IOError")
        => /\ last.kind = "ok"
           /\ kp.keyType = savedKP.keyType
           /\ kp.privKey = savedKP.privKey
           /\ kp.pubKey = savedKP.pubKey
           /\ GetID(kp) = GetID(savedKP)

\* C2: once a startup has generated a KeyPair and written it to the key file,
\* every later startup against that file (the read itself succeeding) gets
\* past the identity step with the same node identifier.
C2_StableIdentity ==
    (persistedID # NoID /\ runs > 1 /\ pc \notin {"Stat", "Load"} /\ crash # "IOError")
        => /\ idFail = "none"
           /\ GetID(nodeKey) = persistedID

C4_PublishIndependentOfReceive ==
    (pc = "Next" /\ inbox = <<>>) => pending > 0

PublicOrigins == {"FromPublicKey", "FromBase64PublicKey", "LoadFromFile/public"}

\* C5: Sign on a KeyPair restored from public bytes returns the error
\* NotSigningCapableError (no crash, no signature), and the record SaveToFile
\* writes for such a KeyPair has signKey = false.
C5_SignPublicOnly ==
    /\ (last.op = "Sign" /\ kpFrom \in PublicOrigins)
          => (last.kind = "err" /\ last.err = "NotSigningCapableError")
    /\ (savedFrom \in PublicOrigins) => (disk.valid /\ ~disk.signKey)

\* Whether text t is the base64 of valid private-key bytes for type typ.
ValidPrivateKeyText(typ, t) ==
    /\ ConfigDecodeKey(t).err = "nil"
    /\ \/ typ = Ed25519 /\ UnmarshalEd25519PrivateKey(ConfigDecodeKey(t).bytes).err = "nil"
       \/ typ = Secp256k1 /\ UnmarshalSecp256k1PrivateKey(ConfigDecodeKey(t).bytes).err = "nil"

\* C6: LoadFromFile of a record with signKey = true whose key is not valid
\* private-key bytes for the record's type returns a key-parse error and no
\* KeyPair, and does not crash.
C6_MalformedRecord ==
    (/\ last.op = "LoadFromFile"
     /\ last.err # "IOError"
     /\ disk.valid
     /\ disk.signKey
     /\ ~ValidPrivateKeyText(disk.type, disk.key))
        => (last.kind = "err" /\ last.err = "KeyParseError" /\ kp = NoKP)

NotSelf(p) == p # hostID

\* C7: Announce never calls host.Connect for a delivered entry that carries
\* the host's own identifier, and calls it for every other delivered entry.
C7_NoSelfConnect ==
    /\ \A i \in 1..Len(attempts) : attempts[i].id # hostID
    /\ Len(attempts) = Cardinality({i \in 1..Len(yielded) : yielded[i] # hostID})

\* The channel delivered the host's own identifier first and another peer
\* after it, and the loop has ended.
C7_Witness ==
    /\ pc = "AnnounceDone"
    /\ Len(yielded) = 2
    /\ yielded[1] = hostID
    /\ Len(attempts) = 1

\* C8: whatever the outcomes of the seed connections, none of them ends the
\* process, wg.Wait returns as soon as all have ended, and the orchestrator
\* goes on to advertise and then to look for peers.
C8_PartialBootstrap ==
    /\ []((pc = "WgWait" /\ \A i \in 1..NumBootstrap : seedState[i] \in {"connected", "failed"})
            => ENABLED WgWait)
    /\ [][(seedState' # seedState /\ runs' = runs /\ pc' # "Join") => pc' = pc]_vars
    /\ [][(pc = "WgWait" /\ runs' = runs) => pc' \in {"WgWait", "Advertise"}]_vars
    /\ [][(pc = "Advertise" /\ runs' = runs) => pc' \in {"Advertise", "FindPeers"}]_vars

\* One seed connection succeeded, every other failed, and discovery runs.
C8_Witness ==
    /\ pc = "Range"
    /\ \E i \in 1..NumBootstrap :
          /\ seedState[i] = "connected"
          /\ \A j \in (1..NumBootstrap) \ {i} : seedState[j] = "failed"

\* C9: the host.Connect calls of the range loop are exactly the delivered
\* entries other than the host's own, one call each and in order, and a
\* failed call leaves the process running in the loop.
C9_ConnectErrorNotFatal ==
    /\ [i \in 1..Len(attempts) |-> attempts[i].id] = SelectSeq(yielded, NotSelf)
    /\ (\E i \in 1..Len(attempts) : ~attempts[i].ok) => pc \in {"Range", "AnnounceDone"}
    /\ (pc = "Range" /\ Len(yielded) < MaxPeers) => ENABLED RangeNext

\* The first connect failed and the next candidate was attempted.
C9_Witness ==
    /\ Len(attempts) = 2
    /\ ~attempts[1].ok
    /\ pc = "AnnounceDone"

\* C10: a failure of key generation, key loading or key persisting during
\* startup ends the process before the network session is created.
C10_IdentityErrorsFatal ==
    idFail # "none" => pc = "aborted"

\* C12: FromPrivateKey called with an algorithm code other than Ed25519 and
\* Secp256k1 returns a key-parse error for every byte input: it returns no
\* KeyPair and it does not panic.
C12_UnsupportedAlgorithm ==
    (/\ last.op = "FromPrivateKey"
     /\ lastTyp.given
     /\ lastTyp.typ \notin {Ed25519, Secp256k1})
    => (last.kind = "err" /\ last.err = "KeyParseError" /\ kp = NoKP)

\* C13: after a successful SaveToFile the record in the file has type equal to
\* the algorithm code of the KeyPair's keys, signKey = TRUE exactly when the
\* private key is present, and key the base64 text of the raw private key
\* (signKey = TRUE) or of the raw public key (signKey = FALSE).
C13_PersistedRecord ==
    (last.op = "SaveToFile" /\ last.kind = "ok")
    => /\ disk.valid
       /\ disk.type = GetPublicKey(kp).alg
       /\ disk.signKey = isAbleToSign(kp)
       /\ disk.key = IF isAbleToSign(kp)
                     THEN ConfigEncodeKey(GetPrivateKey(kp).raw)
                     ELSE ConfigEncodeKey(GetPublicKey(kp).raw)

Constructors == {"New", "FromPrivateKey", "FromBase64PrivateKey", "FromPublicKey",
                 "FromBase64PublicKey", "LoadFromFile"}

\* C18: every KeyPair returned without error by New, FromPrivateKey,
\* FromBase64PrivateKey, FromPublicKey, FromBase64PublicKey or LoadFromFile
\* holds a public key; it holds a private key with it or none, and then the
\* public key is the one of that private key.
C18_KeyPairShape ==
    /\ (last.op \in Constructors /\ last.kind = "ok")
       => /\ kp # NoKP
          /\ GetPublicKey(kp) # NilKey
          /\ isAbleToSign(kp) => GetPublicKey(kp) = GetPublic(GetPrivateKey(kp))
    /\ (last.op \in Constructors /\ last.kind # "ok") => kp = NoKP

\* a KeyPair restored from a file that holds a private key: both keys present
C18_Witness ==
    /\ last.op = "LoadFromFile"
    /\ last.kind = "ok"
    /\ isAbleToSign(kp)
    /\ GetPublicKey(kp) # NilKey

Outstanding == {i \in 1..NumBootstrap : seedState[i] = "connecting"}
AfterBarrier == {"Advertise", "FindPeers", "Range", "AnnounceDone"}

\* C14: Announce starts one connection attempt per seed peer without waiting
\* for the earlier ones, the wait group counts the attempts still outstanding,
\* and the orchestrator is at or past the advertise step only when every seed
\* attempt has been started and has ended in success or failure.
C14_SeedBarrier ==
    /\ wg = Cardinality(Outstanding)
    /\ (pc = "SeedLoop" /\ \E i \in 1..NumBootstrap : seedState[i] = "idle")
       => ENABLED SeedSpawn
    /\ pc = "WgWait" => \A i \in 1..NumBootstrap : seedState[i] # "idle"
    /\ pc \in AfterBarrier
       => \A i \in 1..NumBootstrap : seedState[i] \in {"connected", "failed"}

\* Every seed attempt is outstanding at once and the orchestrator is held at
\* wg.Wait.
C14_Witness ==
    /\ pc = "WgWait"
    /\ Outstanding = 1..NumBootstrap
    /\ ~ENABLED WgWait

DirectoryCalls == {"dht.New", "dht.Bootstrap", "FindPeers"}

\* C15 as stated: a failure of dht.New, of kademliaDHT.Bootstrap or of
\* FindPeers is logged and skipped; none of them ends the process.
C15_DirectoryErrorsRecovered ==
    dirFailed # "none" => pc # "aborted"

\* C15 amended: a failure of dht.New, of kademliaDHT.Bootstrap or of FindPeers
\* ends the process at that call; the failures Announce logs and survives are
\* those of the host.Connect calls to the seed peers and to the discovered
\* peers.
C15_DirectoryErrorsFatal ==
    /\ dirFailed # "none" => (pc = "aborted" /\ crash = dirFailed)
    /\ (pc = "aborted" /\ crash \in DirectoryCalls) => dirFailed = crash
    /\ (\E i \in 1..NumBootstrap : seedState[i] = "failed")
       => crash \notin {"host.Connect"}
    /\ (\E i \in 1..Len(attempts) : ~attempts[i].ok) => pc # "aborted"

\* FindPeers failed after a seed connection had failed and been survived.
C15_Witness ==
    /\ dirFailed = "FindPeers"
    /\ pc = "aborted"
    /\ \E i \in 1..NumBootstrap : seedState[i] = "failed"

\* The lifecycle phase a position of main belongs to: 1 Initializing (identity
\* and network.New), 2 TransportReady (dht.New, Bootstrap, seed connections),
\* 3 DirectoryBootstrapped (about to advertise), 4 Advertised (about to look
\* up), 5 Discovering (range over peerChan), 6 SteadyState (Join: topic,
\* subscription, loop).
Phase(p) ==
    CASE p \in {"Stat", "New", "Save", "Load", "NetNew"} -> 1
      [] p \in {"DhtNew", "Bootstrap", "SeedLoop", "WgWait"} -> 2
      [] p = "Advertise" -> 3
      [] p = "FindPeers" -> 4
      [] p \in {"Range", "AnnounceDone"} -> 5
      [] p \in {"Join", "Subscribe", "Loop", "Next"} -> 6
      [] OTHER -> 0

\* C16: within one run of the process the phases are passed in the order
\* Initializing, TransportReady, DirectoryBootstrapped, Advertised,
\* Discovering, SteadyState, none skipped and none entered again; Join is
\* entered only from the end of the range over peerChan, nothing is scheduled
\* or received before it, and the process leaves the gossip loop only by an
\* abort or by being ended.
C16_LifecycleOrder ==
    /\ [][(runs' = runs /\ pc # "aborted" /\ pc' # "aborted")
            => Phase(pc') \in {Phase(pc), Phase(pc) + 1}]_vars
    /\ [][(pc = "aborted" /\ runs' = runs) => pc' = "aborted"]_vars
    /\ [][runs' # runs => pc' = "Stat"]_vars
    /\ [][(pc' = "Join" /\ pc # "Join") => pc = "AnnounceDone"]_vars
    /\ [][(pc' = "AnnounceDone" /\ pc # "AnnounceDone") => pc = "Range"]_vars
    /\ [](Phase(pc) \in 1..5 => (scheduled = 0 /\ received = 0 /\ inbox = <<>>))
    /\ [][(pc \in {"Loop", "Next"} /\ runs' = runs)
            => pc' \in {"Loop", "Next", "aborted"}]_vars

\* The first run has passed every phase and its gossip loop has received a
\* message.
C16_Witness ==
    /\ pc = "Loop"
    /\ received = 1
    /\ crash = "none"
    /\ runs = 1

\* C19: in Join a timer is armed exactly once per loop iteration, before the
\* receive: while the loop is in helloWorld.Next the timers armed so far are
\* one more than the messages received, at the loop head they are as many, and
\* the loop head is reached only from Subscribe or from a receive that
\* returned a message.
C19_OneTimerPerIteration ==
    /\ [](pc = "Next" => scheduled = received + 1)
    /\ [](pc = "Loop" => scheduled = received)
    /\ [](pending <= scheduled)
    /\ [][(scheduled' # scheduled /\ runs' = runs)
            => (pc = "Loop" /\ pc' = "Next" /\ scheduled' = scheduled + 1)]_vars
    /\ [][(pc' = "Loop" /\ pc # "Loop")
            => (pc = "Subscribe" \/ (pc = "Next" /\ received' = received + 1))]_vars

\* Two messages have been received and the loop waits for a third with its
\* third timer armed.
C19_Witness ==
    /\ pc = "Next"
    /\ received = 2
    /\ scheduled = 3

C17_NoReadDuringWrite ==
    Storing = {} \/ Loading = {}

\* C11: two nodes on the same label, directory and topic both reach the gossip
\* loop, and each eventually receives a message of the other whose sender is
\* the other's identifier and whose payload is "Hello from:" followed by that
\* identifier; nothing else is ever received.
C11_EndToEndDelivery ==
    /\ <>[](\A n \in Nodes : InLoop(n))
    /\ \A a \in Nodes : \A b \in Nodes \ {a} :
          <>(/\ nhost[a] # NoID
             /\ nhost[a] = GetID(nkey[a])
             /\ HelloMsg(nhost[a], nhost[a]) \in heard[b])
    /\ [](\A n \in Nodes : \A m \in heard[n] :
             \E p \in Nodes : m = HelloMsg(nhost[p], nhost[p]))

\* B has received A's message, and B is the node that found A.
C11_Witness ==
    /\ HelloMsg(nhost["A"], nhost["A"]) \in heard["B"]
    /\ nhost["A"] # NoID
    /\ InLoop("A") /\ InLoop("B")

====
